---------------------------- MODULE Spec2Model ----------------------------
(* A model of run.py: the command-line entry point, Config, load_tokenizer *)
(* and main.  Strings are sequences of one-character strings, so that      *)
(* str.lower, str(float), float(str), indexing and f-string concatenation  *)
(* are computed as Python computes them.                                   *)
EXTENDS Integers, Sequences, FiniteSets, TLC

VARIABLES entry, argv, cuda, yaml, files, pc, args, abort, events, rng,
          config, tokenizer

vars == <<entry, argv, cuda, yaml, files, pc, args, abort, events, rng,
          config, tokenizer>>

-----------------------------------------------------------------------------
(* String literals of the program and of the modelled inputs.              *)

s_translation == <<"t", "r", "a", "n", "s", "l", "a", "t", "i", "o", "n">>
s_dialogue == <<"d", "i", "a", "l", "o", "g", "u", "e">>
s_summarization == <<"s", "u", "m", "m", "a", "r", "i", "z", "a", "t", "i", "o", "n">>
s_Translation == <<"T", "r", "a", "n", "s", "l", "a", "t", "i", "o", "n">>
s_paraphrase == <<"p", "a", "r", "a", "p", "h", "r", "a", "s", "e">>
s_train == <<"t", "r", "a", "i", "n">>
s_test == <<"t", "e", "s", "t">>
s_inference == <<"i", "n", "f", "e", "r", "e", "n", "c", "e">>
s_TRAIN == <<"T", "R", "A", "I", "N">>
s_eval == <<"e", "v", "a", "l">>
s_first == <<"f", "i", "r", "s", "t">>
s_cosine == <<"c", "o", "s", "i", "n", "e">>
s_greedy == <<"g", "r", "e", "e", "d", "y">>
s_beam == <<"b", "e", "a", "m">>
s_sample == <<"s", "a", "m", "p", "l", "e">>
s_nan == <<"n", "a", "n">>
s_inf == <<"i", "n", "f">>
s_infinity == <<"i", "n", "f", "i", "n", "i", "t", "y">>
s_cuda == <<"c", "u", "d", "a">>
s_cpu == <<"c", "p", "u">>
s_ckpt_slash == <<"c", "k", "p", "t", "/">>
s_slash_aux == <<"/", "a", "u", "x", "_">>
s_0_model_pt == <<"0", "_", "m", "o", "d", "e", "l", ".", "p", "t">>
s_data_slash == <<"d", "a", "t", "a", "/">>
s_slash_tokenizer_json == <<"/", "t", "o", "k", "e", "n", "i", "z", "e", "r", ".", "j", "s", "o", "n">>
s_config_yaml == <<"c", "o", "n", "f", "i", "g", ".", "y", "a", "m", "l">>
s_template_A == <<" ", "$", "A", " ">>
s_bos == <<"[", "B", "O", "S", "]">>
s_eos == <<"[", "E", "O", "S", "]">>
s_0_3 == <<"0", ".", "3">>
s_0_30 == <<"0", ".", "3", "0">>
s_0_25 == <<"0", ".", "2", "5">>
s_1_0 == <<"1", ".", "0">>
s_0_0 == <<"0", ".", "0">>
s_1_5 == <<"1", ".", "5">>
s_ckpt_translation_30 == <<"c", "k", "p", "t", "/", "t", "r", "a", "n", "s", "l", "a", "t", "i", "o", "n", "/", "a", "u", "x", "_", "3", "0", "_", "m", "o", "d", "e", "l", ".", "p", "t">>
s_ckpt_translation_50 == <<"c", "k", "p", "t", "/", "t", "r", "a", "n", "s", "l", "a", "t", "i", "o", "n", "/", "a", "u", "x", "_", "5", "0", "_", "m", "o", "d", "e", "l", ".", "p", "t">>

-----------------------------------------------------------------------------
(* Python's str and float operations.                                      *)

UpperChars == <<"A", "B", "C", "D", "E", "F", "G", "H", "I", "J", "K", "L", "M",
                "N", "O", "P", "Q", "R", "S", "T", "U", "V", "W", "X", "Y", "Z">>
LowerChars == <<"a", "b", "c", "d", "e", "f", "g", "h", "i", "j", "k", "l", "m",
                "n", "o", "p", "q", "r", "s", "t", "u", "v", "w", "x", "y", "z">>
DigitChars == <<"0", "1", "2", "3", "4", "5", "6", "7", "8", "9">>

LowerChar(c) ==
    IF \E i \in 1..Len(UpperChars) : UpperChars[i] = c
    THEN LowerChars[CHOOSE i \in 1..Len(UpperChars) : UpperChars[i] = c]
    ELSE c

\* str.lower()
Lower(s) == [i \in 1..Len(s) |-> LowerChar(s[i])]

IsDigit(c) == \E i \in 1..10 : DigitChars[i] = c
DigitVal(c) == (CHOOSE i \in 1..10 : DigitChars[i] = c) - 1

\* Decimal places the modelled floats carry: a float is an integer number of
\* units of 10^-FracDigits.
FracDigits == 2

RECURSIVE Pow10(_)
Pow10(n) == IF n = 0 THEN 1 ELSE 10 * Pow10(n - 1)

Unit == Pow10(FracDigits)

RECURSIVE NatVal(_)
NatVal(s) == IF s = <<>> THEN 0
             ELSE 10 * NatVal(SubSeq(s, 1, Len(s) - 1)) + DigitVal(s[Len(s)])

RECURSIVE NatStr(_)
NatStr(n) == IF n < 10 THEN <<DigitChars[n + 1]>>
             ELSE NatStr(n \div 10) \o <<DigitChars[(n % 10) + 1]>>

\* A float value: a number (val units of 10^-FracDigits), nan, or +-inf
\* (val carries the sign).
Num(v) == [kind |-> "num", val |-> v]
NoFloat == [kind |-> "none", val |-> 0]

AllDigits(s) == \A i \in 1..Len(s) : IsDigit(s[i])

\* float(s) as argparse applies it to an argument declared type=float: the
\* record [ok, f]; ok = FALSE is float's ValueError.  Literals are decimal
\* numerals with at most FracDigits fractional digits, or nan/inf/infinity
\* in any letter case, each with an optional sign.
ParseFloat(s) ==
    LET signed == Len(s) > 0 /\ s[1] \in {"-", "+"}
        neg    == Len(s) > 0 /\ s[1] = "-"
        body   == IF signed THEN SubSeq(s, 2, Len(s)) ELSE s
        dots   == {i \in 1..Len(body) : body[i] = "."}
        ip     == IF dots = {} THEN body
                  ELSE SubSeq(body, 1, (CHOOSE i \in dots : TRUE) - 1)
        fp     == IF dots = {} THEN <<>>
                  ELSE SubSeq(body, (CHOOSE i \in dots : TRUE) + 1, Len(body))
        mag    == NatVal(ip) * Unit + NatVal(fp) * Pow10(FracDigits - Len(fp))
    IN  IF Lower(body) = s_nan
        THEN [ok |-> TRUE, f |-> [kind |-> "nan", val |-> 0]]
        ELSE IF Lower(body) \in {s_inf, s_infinity}
        THEN [ok |-> TRUE, f |-> [kind |-> "inf", val |-> IF neg THEN -1 ELSE 1]]
        ELSE IF /\ Cardinality(dots) <= 1
                /\ Len(ip) + Len(fp) > 0
                /\ AllDigits(ip) /\ AllDigits(fp)
                /\ Len(fp) <= FracDigits
        THEN [ok |-> TRUE, f |-> Num(IF neg THEN -mag ELSE mag)]
        ELSE [ok |-> FALSE, f |-> NoFloat]

RECURSIVE StripZeros(_)
StripZeros(s) == IF Len(s) > 1 /\ s[Len(s)] = "0"
                 THEN StripZeros(SubSeq(s, 1, Len(s) - 1))
                 ELSE s

\* n as exactly w digits, zero-padded on the left
RECURSIVE PadDigits(_, _)
PadDigits(n, w) == IF w = 0 THEN <<>>
                   ELSE PadDigits(n \div 10, w - 1) \o <<DigitChars[(n % 10) + 1]>>

\* str(f) of a float: the shortest decimal that round-trips, which always
\* shows a fractional part ("1.0", "0.3", "0.25").
StrFloat(f) ==
    IF f.kind = "nan" THEN s_nan
    ELSE IF f.kind = "inf"
    THEN (IF f.val < 0 THEN <<"-">> ELSE <<>>) \o s_inf
    ELSE LET m == IF f.val < 0 THEN -f.val ELSE f.val
         IN  (IF f.val < 0 THEN <<"-">> ELSE <<>>)
             \o NatStr(m \div Unit) \o <<".">>
             \o StripZeros(PadDigits(m % Unit, FracDigits))

\* s[-1]
LastChar(s) == s[Len(s)]

\* lo <= f <= hi on floats; any comparison with nan is False
FloatBetween(lo, f, hi) ==
    CASE f.kind = "num" -> lo <= f.val /\ f.val <= hi
      [] OTHER -> FALSE


-----------------------------------------------------------------------------
(* The inputs of a run: the command line, the machine, the file system.    *)

Tasks    == {s_translation, s_Translation, s_paraphrase}
Modes    == {s_train, s_test, s_inference, s_TRAIN, s_eval}
AuxTypes == {s_first, s_cosine, s_1_0}
Ratios   == {s_0_3, s_0_30, s_0_25, s_1_0, s_0_0, s_1_5}
Searches == {s_greedy, s_beam, s_sample}

s_tokenizer_translation == s_data_slash \o s_translation \o s_slash_tokenizer_json

CandidateFiles == {s_config_yaml, s_tokenizer_translation,
                   s_ckpt_translation_30, s_ckpt_translation_50}

\* The parsed content of config.yaml: groups in file order, each the
\* key/value pairs of the group in file order.
YamlPlain ==
    << << <<"hidden_dim", 256>>, <<"n_layers", 2>> >>,
       << <<"bos_token", s_bos>>, <<"eos_token", s_eos>>,
          <<"bos_id", 1>>, <<"eos_id", 2>> >> >>

\* A config.yaml whose groups repeat a key and use the names of the fields
\* Config sets itself.
YamlClobber ==
    << << <<"bos_token", s_eos>>, <<"eos_token", s_eos>>,
          <<"bos_id", 1>>, <<"eos_id", 2>>,
          <<"task", s_dialogue>>, <<"mode", s_inference>> >>,
       << <<"bos_token", s_bos>>, <<"ckpt", s_config_yaml>>,
          <<"aux_ratio", Num(Unit)>>, <<"search_method", s_beam>>,
          <<"device_type", s_cuda>>, <<"device", s_cuda>> >> >>

Yamls == {YamlPlain, YamlClobber}

NoArgs == [task |-> <<>>, mode |-> <<>>,
           aux_type |-> [type |-> "none", s |-> <<>>, f |-> NoFloat],
           aux_ratio |-> NoFloat, search |-> <<>>]
NoAbort == [line |-> 0, err |-> "none"]
NoConfig == [k \in {} |-> 0]
NoTokenizer == [path |-> <<>>, single |-> <<>>, special_tokens |-> <<>>]

\* def set_seed(SEED=42)
SEED == 42

\* The process-wide random state before seeding (0: not seeded by the
\* program) and the cudnn flags' defaults.
Unseeded == [random |-> 0, numpy |-> 0, torch |-> 0, cuda |-> 0, cuda_all |-> 0,
             benchmark |-> FALSE, deterministic |-> FALSE]

Init ==
    /\ entry \in {"script", "call"}
    /\ argv \in [task : Tasks, mode : Modes, aux_type : AuxTypes,
                 aux_ratio : Ratios, search : Searches]
    /\ cuda \in BOOLEAN
    /\ yaml \in Yamls
    /\ files \in SUBSET CandidateFiles
    /\ pc = "start"
    /\ args = NoArgs
    /\ abort = NoAbort
    /\ events = <<>>
    /\ rng = Unseeded
    /\ config = NoConfig
    /\ tokenizer = NoTokenizer

Abort(line, err) == [line |-> line, err |-> err]

-----------------------------------------------------------------------------
(* The entry point: lines 100-120.                                         *)

\* parser.parse_args(): argparse converts -aux_type and -aux_ratio with
\* float and exits (status 2) when a conversion raises ValueError.
parse_args ==
    /\ pc = "start"
    /\ entry = "script"
    /\ LET t == ParseFloat(argv.aux_type)
           r == ParseFloat(argv.aux_ratio)
       IN  IF t.ok /\ r.ok
           THEN /\ args' = [task |-> argv.task, mode |-> argv.mode,
                            aux_type |-> [type |-> "float", s |-> <<>>, f |-> t.f],
                            aux_ratio |-> r.f, search |-> argv.search]
                /\ pc' = "parsed"
                /\ abort' = abort
           ELSE /\ args' = args
                /\ pc' = "aborted"
                /\ abort' = Abort(108, "SystemExit")
    /\ UNCHANGED <<entry, argv, cuda, yaml, files, events, rng, config, tokenizer>>

\* assert args.task.lower() in ['translation', 'dialogue', 'summarization']
TaskAssert(a) == Lower(a.task) \in {s_translation, s_dialogue, s_summarization}

\* assert args.mode.lower() in ['train', 'test', 'inference']
ModeAssert(a) == Lower(a.mode) \in {s_train, s_test, s_inference}

\* assert args.aux_type.lower() in ['first', 'cosine']: a float has no
\* attribute lower, so the expression raises before assert sees a value.
AuxTypeAssert(a) ==
    IF a.aux_type.type # "str" THEN "AttributeError"
    ELSE IF Lower(a.aux_type.s) \in {s_first, s_cosine} THEN "ok"
    ELSE "AssertionError"

\* assert 0.0 <= args.aux_ratio <= 1.0
RatioAssert(a) == FloatBetween(0, a.aux_ratio, Unit)

\* assert args.search.lower() in ['greedy', 'beam']
SearchAssert(a) == Lower(a.search) \in {s_greedy, s_beam}

\* f"ckpt/{args.task}"
EntryCkptDir(a) == s_ckpt_slash \o a.task

\* f"ckpt/{args.task}/aux_{str(args.aux_ratio)[-1]}0_model.pt"
EntryCkptPath(a) ==
    s_ckpt_slash \o a.task \o s_slash_aux
    \o <<LastChar(StrFloat(a.aux_ratio))>> \o s_0_model_pt

\* Validation skipped altogether.
NoFailure(a, fs) == NoAbort

\* Lines 109-118 in order: the first statement that raises, or NoAbort.
Failure(a, fs) ==
    IF ~TaskAssert(a) THEN Abort(109, "AssertionError")
    ELSE IF ~ModeAssert(a) THEN Abort(110, "AssertionError")
    ELSE IF AuxTypeAssert(a) # "ok" THEN Abort(111, AuxTypeAssert(a))
    ELSE IF ~RatioAssert(a) THEN Abort(112, "AssertionError")
    ELSE IF ~SearchAssert(a) THEN Abort(113, "AssertionError")
    ELSE IF a.mode # s_train /\ EntryCkptPath(a) \notin fs
    THEN Abort(118, "AssertionError")
    ELSE NoAbort

\* Lines 109-120: the assertions, the checkpoint step, the call of main.
validate ==
    /\ pc = "parsed"
    /\ LET f == Failure(args, files)
       IN  /\ abort' = f
           /\ pc' = IF f.line = 0 THEN "main" ELSE "aborted"
           /\ files' = IF f.line = 0 /\ args.mode = s_train
                       THEN files \cup {EntryCkptDir(args)}
                       ELSE files
           /\ events' = IF f.line \notin {0, 118} THEN events
                        ELSE IF args.mode = s_train
                        THEN Append(events, "makedirs")
                        ELSE Append(events, "exists_ckpt")
    /\ UNCHANGED <<entry, argv, cuda, yaml, args, rng, config, tokenizer>>

\* main(args) called by an importer of the module with a Namespace of its
\* own: the strings as given, the ratio a float.
call_main ==
    /\ pc = "start"
    /\ entry = "call"
    /\ ParseFloat(argv.aux_ratio).ok
    /\ args' = [task |-> argv.task, mode |-> argv.mode,
                aux_type |-> [type |-> "str", s |-> argv.aux_type, f |-> NoFloat],
                aux_ratio |-> ParseFloat(argv.aux_ratio).f, search |-> argv.search]
    /\ pc' = "main"
    /\ UNCHANGED <<entry, argv, cuda, yaml, files, abort, events, rng, config,
                   tokenizer>>

-----------------------------------------------------------------------------
(* set_seed: lines 16-27.                                                  *)

set_seed ==
    /\ pc = "main"
    /\ rng' = [random |-> SEED, numpy |-> SEED, torch |-> SEED, cuda |-> SEED,
               cuda_all |-> SEED, benchmark |-> FALSE, deterministic |-> TRUE]
    /\ events' = Append(events, "set_seed")
    /\ pc' = "seeded"
    /\ UNCHANGED <<entry, argv, cuda, yaml, files, args, abort, config, tokenizer>>

-----------------------------------------------------------------------------
(* Config.__init__: lines 32-50.                                           *)

\* setattr(self, key, val)
SetAttr(c, key, val) ==
    [k \in DOMAIN c \cup {key} |-> IF k = key THEN val ELSE c[k]]

\* for key, val in group.items(): setattr(self, key, val)
RECURSIVE SetGroup(_, _)
SetGroup(c, group) ==
    IF group = <<>> THEN c
    ELSE SetGroup(SetAttr(c, Head(group)[1], Head(group)[2]), Tail(group))

\* for group in params.keys(): ...
RECURSIVE SetGroups(_, _)
SetGroups(c, groups) ==
    IF groups = <<>> THEN c
    ELSE SetGroups(SetGroup(c, Head(groups)), Tail(groups))

\* The checkpoint name takes the first digit after the decimal point.
CkptPathFirstDecimal(task, ratio) ==
    LET s == StrFloat(ratio)
        dot == CHOOSE i \in 1..Len(s) : s[i] = "."
    IN  s_ckpt_slash \o task \o s_slash_aux \o <<s[dot + 1]>> \o s_0_model_pt

\* f"ckpt/{self.task}/aux_{str(self.aux_ratio)[-1]}0_model.pt"
CkptPath(task, ratio) ==
    s_ckpt_slash \o task \o s_slash_aux
    \o <<LastChar(StrFloat(ratio))>> \o s_0_model_pt

\* The accelerator whenever there is one.
DeviceTypeAnyMode(use_cuda, mode) == IF use_cuda THEN s_cuda ELSE s_cpu

\* 'cuda' if use_cuda and self.mode != 'inference' else 'cpu'
DeviceType(use_cuda, mode) ==
    IF use_cuda /\ mode # s_inference THEN s_cuda ELSE s_cpu

\* self.task = args.task ... self.search_method = args.search
CliFields(c, a) ==
    LET c1 == SetAttr(c, "task", a.task)
        c2 == SetAttr(c1, "mode", a.mode)
        c3 == SetAttr(c2, "aux_ratio", a.aux_ratio)
    IN  SetAttr(c3, "search_method", a.search)

\* The file's groups applied after the fields Config sets itself.
ConfigOfFileLast(a, groups, use_cuda) ==
    LET c1 == CliFields(NoConfig, a)
        c2 == SetAttr(c1, "ckpt", CkptPath(c1["task"], c1["aux_ratio"]))
        c3 == SetAttr(c2, "device_type", DeviceType(use_cuda, c2["mode"]))
        c4 == SetAttr(c3, "device", c3["device_type"])
    IN  SetGroups(c4, groups)

\* The attributes of the constructed Config, in the order they are set.
ConfigOf(a, groups, use_cuda) ==
    LET c0 == SetGroups(NoConfig, groups)
        c1 == CliFields(c0, a)
        c2 == SetAttr(c1, "ckpt", CkptPath(c1["task"], c1["aux_ratio"]))
        c3 == SetAttr(c2, "device_type", DeviceType(use_cuda, c2["mode"]))
    IN  SetAttr(c3, "device", c3["device_type"])

\* config = Config(args): open('config.yaml') raises when the file is absent.
Config_init ==
    /\ pc = "seeded"
    /\ events' = Append(events, "open_config")
    /\ IF s_config_yaml \in files
       THEN /\ config' = ConfigOf(args, yaml, cuda)
            /\ pc' = "configured"
            /\ abort' = abort
       ELSE /\ config' = config
            /\ pc' = "aborted"
            /\ abort' = Abort(34, "FileNotFoundError")
    /\ UNCHANGED <<entry, argv, cuda, yaml, files, args, rng, tokenizer>>

-----------------------------------------------------------------------------
(* main: lines 75-95.                                                      *)

\* model = load_model(config): the factory of package module returns a model
\* or raises.
load_model ==
    /\ pc = "configured"
    /\ events' = Append(events, "load_model")
    /\ \E raised \in BOOLEAN :
          IF raised
          THEN pc' = "aborted" /\ abort' = Abort(78, "Exception")
          ELSE pc' = "model" /\ abort' = abort
    /\ UNCHANGED <<entry, argv, cuda, yaml, files, args, rng, config, tokenizer>>

\* f"data/{config.task}/tokenizer.json"
TokenizerPath(c) == s_data_slash \o c["task"] \o s_slash_tokenizer_json

\* tokenizer = load_tokenizer(config): lines 60-71
load_tokenizer ==
    /\ pc = "model"
    /\ events' = Append(events, "exists_tokenizer")
    /\ IF TokenizerPath(config) \notin files
       THEN /\ pc' = "aborted"
            /\ abort' = Abort(62, "AssertionError")
            /\ tokenizer' = tokenizer
       ELSE IF ~({"bos_token", "eos_token", "bos_id", "eos_id"} \subseteq DOMAIN config)
       THEN /\ pc' = "aborted"
            /\ abort' = Abort(66, "AttributeError")
            /\ tokenizer' = tokenizer
       ELSE /\ pc' = "tokenizer"
            /\ abort' = abort
            /\ tokenizer' =
                 [path |-> TokenizerPath(config),
                  single |-> config["bos_token"] \o s_template_A
                             \o config["eos_token"],
                  special_tokens |->
                      << <<config["bos_token"], config["bos_id"]>>,
                         <<config["eos_token"], config["eos_id"]>> >>]
    /\ UNCHANGED <<entry, argv, cuda, yaml, files, args, rng, config>>

\* The end of a mode's branch: its procedure returns or raises.
Finish(line) ==
    \E raised \in BOOLEAN :
        IF raised
        THEN pc' = "aborted" /\ abort' = Abort(line, "Exception")
        ELSE pc' = "done" /\ abort' = abort

\* if config.mode == 'train': lines 82-86
train_branch ==
    /\ pc = "tokenizer"
    /\ config["mode"] = s_train
    /\ events' = events \o <<"load_dataloader:train", "load_dataloader:valid",
                             "Trainer", "Trainer.train">>
    /\ Finish(86)
    /\ UNCHANGED <<entry, argv, cuda, yaml, files, args, rng, config, tokenizer>>

\* elif config.mode == 'test': lines 88-91
test_branch ==
    /\ pc = "tokenizer"
    /\ config["mode"] # s_train
    /\ config["mode"] = s_test
    /\ events' = events \o <<"load_dataloader:test", "Tester", "Tester.test">>
    /\ Finish(91)
    /\ UNCHANGED <<entry, argv, cuda, yaml, files, args, rng, config, tokenizer>>

\* elif config.mode == 'inference': lines 93-95
inference_branch ==
    /\ pc = "tokenizer"
    /\ config["mode"] \notin {s_train, s_test}
    /\ config["mode"] = s_inference
    /\ events' = events \o <<"Generator", "Generator.inference">>
    /\ Finish(95)
    /\ UNCHANGED <<entry, argv, cuda, yaml, files, args, rng, config, tokenizer>>

\* No condition of the if/elif chain holds: main returns.
no_branch ==
    /\ pc = "tokenizer"
    /\ config["mode"] \notin {s_train, s_test, s_inference}
    /\ pc' = "done"
    /\ UNCHANGED <<entry, argv, cuda, yaml, files, args, abort, events, rng,
                   config, tokenizer>>

Next ==
    \/ parse_args
    \/ validate
    \/ call_main
    \/ set_seed
    \/ Config_init
    \/ load_model
    \/ load_tokenizer
    \/ train_branch
    \/ test_branch
    \/ inference_branch
    \/ no_branch

Spec == Init /\ [][Next]_vars

-----------------------------------------------------------------------------
(* Vocabulary of the properties.                                           *)

Terminal == pc \in {"done", "aborted"}
Configured == config # NoConfig

Count(ev, e) == Cardinality({i \in 1..Len(ev) : ev[i] = e})
Occurs(ev, e) == \E i \in 1..Len(ev) : ev[i] = e
Pos(ev, e) == IF Occurs(ev, e)
              THEN CHOOSE i \in 1..Len(ev) :
                      ev[i] = e /\ \A j \in 1..(i - 1) : ev[j] # e
              ELSE 0
\* b happens only after a has
Before(ev, a, b) == Occurs(ev, b) => (Occurs(ev, a) /\ Pos(ev, a) < Pos(ev, b))

BranchCalls == {"Trainer.train", "Tester.test", "Generator.inference"}
Invoked == Cardinality({i \in 1..Len(events) : events[i] \in BranchCalls})

\* The four values the entry point's assertions on task, mode, aux_ratio
\* and search accept.
Accepted(a) == TaskAssert(a) /\ ModeAssert(a) /\ RatioAssert(a) /\ SearchAssert(a)

\* The command line as given: its task, mode, ratio and search are what the
\* assertions accept.
ArgvRatio == ParseFloat(argv.aux_ratio)
ArgvAccepted ==
    /\ Lower(argv.task) \in {s_translation, s_dialogue, s_summarization}
    /\ Lower(argv.mode) \in {s_train, s_test, s_inference}
    /\ ArgvRatio.ok /\ FloatBetween(0, ArgvRatio.f, Unit)
    /\ Lower(argv.search) \in {s_greedy, s_beam}
ArgvAuxTypeInEnum == Lower(argv.aux_type) \in {s_first, s_cosine}
ArgvCkpt == s_ckpt_slash \o argv.task \o s_slash_aux
            \o <<LastChar(StrFloat(ArgvRatio.f))>> \o s_0_model_pt
ArgvCkptOk == argv.mode = s_train \/ ArgvCkpt \in files
InValidation == abort.line \in 108..118

-----------------------------------------------------------------------------
(* C1: every call of main whose task, mode, aux_ratio and search pass the  *)
(* entry point's assertions, and whose model and tokenizer load, invokes   *)
(* exactly one of Trainer.train, Tester.test and Generator.inference.      *)
C1_ExactlyOneBranch ==
    /\ Invoked <= 1
    /\ (pc = "done" /\ Accepted(args)) => Invoked = 1

(* C2: the startup steps happen in the order assertions, checkpoint step,  *)
(* set_seed, Config (config.yaml), load_model, load_tokenizer, branch; a   *)
(* run of the script on a valid command line calls set_seed exactly once.  *)
C2_StartupOrder ==
    /\ Count(events, "set_seed") <= 1
    /\ Before(events, "set_seed", "open_config")
    /\ Before(events, "open_config", "load_model")
    /\ Before(events, "load_model", "exists_tokenizer")
    /\ \A b \in BranchCalls : Before(events, "exists_tokenizer", b)
    /\ (entry = "script" /\ Occurs(events, "set_seed"))
          => (Occurs(events, "makedirs") \/ Occurs(events, "exists_ckpt"))
    /\ (entry = "script" /\ Terminal /\ ArgvAccepted /\ ArgvAuxTypeInEnum
        /\ ArgvCkptOk)
          => Count(events, "set_seed") = 1

(* C3: a script run whose task, mode, aux_ratio or search is invalid never *)
(* gets past validation: no directory made, no checkpoint looked up, no    *)
(* seeding, no config.yaml read, no model, no tokenizer.                   *)
C3_InvalidInputAbortsFirst ==
    (entry = "script" /\ ArgvRatio.ok /\ ~ArgvAccepted)
        => /\ pc \in {"start", "parsed", "aborted"}
           /\ Terminal => InValidation
           /\ events = <<>>
           /\ files \subseteq CandidateFiles
           /\ rng = Unseeded
           /\ config = NoConfig
           /\ tokenizer = NoTokenizer

C3_Witness ==
    /\ entry = "script"
    /\ pc = "aborted"
    /\ argv.task = s_paraphrase
    /\ abort = Abort(109, "AssertionError")
    /\ events = <<>>

(* C4: -aux_type first or cosine, with the other arguments valid and the   *)
(* checkpoint present where needed, passes validation; any other value     *)
(* aborts through the failed assertion on aux_type.                        *)
C4_AuxTypeEnum ==
    (entry = "script" /\ ArgvAccepted /\ ArgvCkptOk /\ Terminal)
        => IF ArgvAuxTypeInEnum
           THEN ~InValidation
           ELSE abort = Abort(111, "AssertionError")

(* C5: a script run in an accepted mode other than train whose checkpoint  *)
(* file is missing aborts before seeding, Config and load_model; and       *)
(* load_model is reached in such a mode only after the file was looked up  *)
(* and found.                                                              *)
C5_MissingCheckpointAborts ==
    /\ (entry = "script" /\ ArgvRatio.ok /\ ModeAssert(argv)
        /\ argv.mode # s_train /\ ArgvCkpt \notin files)
          => /\ pc \in {"start", "parsed", "aborted"}
             /\ ~Occurs(events, "set_seed")
             /\ ~Occurs(events, "open_config")
             /\ ~Occurs(events, "load_model")
    /\ (entry = "script" /\ Occurs(events, "load_model") /\ args.mode # s_train)
          => Occurs(events, "exists_ckpt") /\ EntryCkptPath(args) \in files

C5_Witness ==
    /\ entry = "script"
    /\ pc = "aborted"
    /\ argv.mode = s_test
    /\ ArgvRatio.ok /\ ArgvCkpt \notin files
    /\ abort.line > 110
    /\ ~Occurs(events, "load_model")

(* C6: a Config built from arguments the assertions accept has task in     *)
(* {translation, dialogue, summarization}, mode in {train, test,           *)
(* inference}, aux_ratio in [0, 1] and search_method in {greedy, beam},    *)
(* the exact lower-case strings.                                           *)
C6_ConfigFieldsInEnums ==
    (Configured /\ Accepted(args))
        => /\ config["task"] \in {s_translation, s_dialogue, s_summarization}
           /\ config["mode"] \in {s_train, s_test, s_inference}
           /\ FloatBetween(0, config["aux_ratio"], Unit)
           /\ config["search_method"] \in {s_greedy, s_beam}

(* C7: config.ckpt is "ckpt/" + task + "/aux_" + d + "0_model.pt", d the   *)
(* last character of str(ratio), whatever the mode, the search method and  *)
(* config.yaml; task translation with ratio 0.3 gives                      *)
(* ckpt/translation/aux_30_model.pt.                                       *)
C7_CkptPathShape ==
    Configured =>
        LET p == config["ckpt"]
            n == Len(args.task)
        IN  /\ Len(p) = n + 21
            /\ SubSeq(p, 1, 5) = s_ckpt_slash
            /\ SubSeq(p, 6, n + 5) = args.task
            /\ SubSeq(p, n + 6, n + 10) = s_slash_aux
            /\ p[n + 11] = LastChar(StrFloat(args.aux_ratio))
            /\ SubSeq(p, n + 12, n + 21) = s_0_model_pt
            /\ (args.task = s_translation /\ argv.aux_ratio \in {s_0_3, s_0_30})
                  => p = s_ckpt_translation_30

C7_Witness ==
    /\ Configured
    /\ yaml = YamlClobber
    /\ args.task = s_translation
    /\ argv.aux_ratio = s_0_3
    /\ config["ckpt"] = s_ckpt_translation_30

(* C8: for a ratio in [0, 1] the two digits of aux_NN_model.pt are the     *)
(* first decimal digit of the ratio followed by 0.                         *)
C8_FirstDecimalDigit ==
    (Configured /\ Accepted(args))
        => LET p == config["ckpt"]
               n == Len(args.task)
               tenths == (args.aux_ratio.val * 10) \div Unit
           IN  /\ p[n + 11] = DigitChars[(tenths % 10) + 1]
               /\ p[n + 12] = "0"

(* C9: device_type is cuda exactly when an accelerator is available and    *)
(* mode is not 'inference', cpu otherwise; it is set when Config is built  *)
(* and the Config does not change afterwards.                              *)
C9_DeviceSelection ==
    /\ [](Configured =>
            /\ config["device_type"] \in {s_cuda, s_cpu}
            /\ config["device_type"] = s_cuda
                  <=> (cuda /\ config["mode"] # s_inference)
            /\ config["device"] = config["device_type"]
            /\ config["mode"] = args.mode)
    /\ [][Configured => config' = config]_vars

C9_Witness ==
    /\ pc = "done"
    /\ cuda
    /\ config["mode"] = s_inference
    /\ config["device_type"] = s_cpu

(* C10: the checkpoint path the entry point looks up is the config.ckpt    *)
(* Config derives; so a script run that reaches main in a mode other than  *)
(* train has a config.ckpt that named an existing file at the lookup.      *)
C10_SameCheckpointPath ==
    /\ Configured => config["ckpt"] = EntryCkptPath(args)
    /\ (entry = "script" /\ Configured /\ args.mode # s_train)
          => Occurs(events, "exists_ckpt") /\ config["ckpt"] \in files

C10_Witness ==
    /\ Configured
    /\ args.mode = s_test
    /\ argv.aux_ratio = s_0_25
    /\ config["ckpt"] = s_ckpt_translation_50
    /\ EntryCkptPath(args) \in files

=============================================================================
